---- MODULE Spec2Model ----
(***************************************************************************)
(* BloxFruit stock monitor (src/Gốc/main.py): the change detector, the     *)
(* webhook fan-out, the webhook registry and the monitor_task loop, as a   *)
(* state machine.                                                          *)
(*                                                                         *)
(* Scheduling.  Every request handler is an `async def` without an await, *)
(* so a handler is one atomic step.  monitor_task is an `async def` whose  *)
(* only await is asyncio.sleep(30): the code from the task's start (or     *)
(* from the end of a sleep) to the next sleep is one atomic step.  A task  *)
(* given to BackgroundTasks.add_task starts after the response has been    *)
(* sent, which is a later step: other requests may be served in between.   *)
(***************************************************************************)
EXTENDS Bags, FiniteSets, Integers, Sequences, TLC

(***************************************************************************)
(* Bounds of the model.                                                    *)
(***************************************************************************)
\* monitor_task instances ever handed to BackgroundTasks
MaxTasks == 2
\* detector calls in one behaviour of DetectorSpec
MaxCalls == 3

(***************************************************************************)
(* Values.                                                                 *)
(***************************************************************************)
\* Python's None: a failed fetch, an absent fingerprint
None == [none |-> TRUE]

\* A string is a sequence of tokens; the prefix literal of line 220 is one token.
DiscordPrefix == <<"https://discord.com/api/webhooks/">>

\* str.startswith with only the lengths compared
StartsWithLength(s, p) == Len(s) >= Len(p)

\* str.startswith
StartsWith(s, p) == Len(s) >= Len(p) /\ SubSeq(s, 1, Len(p)) = p

\* webhook query parameters a client may send: the empty string, a URL of
\* another host, and URLs with the Discord prefix
EmptyString == <<>>
BadUrl == <<"http://example.org/hook">>
D1 == DiscordPrefix \o <<"1/a">>
D2 == DiscordPrefix \o <<"2/b">>
D3 == DiscordPrefix \o <<"3/c">>
WebhookInputs == {EmptyString, BadUrl, D1, D2}

\* dict.get(key, default) and `key in dict` on a JSON object (a TLA+ record)
HasKey(d, k) == k \in DOMAIN d
Get(d, k, default) == IF k \in DOMAIN d THEN d[k] ELSE default

\* JSON values of the upstream API.  An object is tagged "dict", a number "int".
JDict(fields) == [t |-> "dict", v |-> fields]
JInt(n) == [t |-> "int", v |-> n]

Kitsune == [name |-> "Kitsune", usd_price |-> "25", robux_price |-> "4000"]
Leopard == [name |-> "Leopard"]
SecTwo == JDict([items |-> <<Kitsune, Leopard>>])
SecOne == JDict([items |-> <<Kitsune>>])
SecEmpty == JDict([items |-> <<>>])
SecNoItems == JDict([updated |-> "now"])
SecBad == JInt(5)

\* The fetched document: a JSON object as the sequence of its <<key, value>>
\* pairs in the order received (a Python dict keeps insertion order).  The
\* objects nested in it are records, which have no key order.
JDoc(pairs) == [pairs |-> pairs]
EmptyDoc == JDoc(<<>>)
Snapshots ==
    { EmptyDoc,
      JDoc(<< <<"normal_stock", SecOne>> >>),
      JDoc(<< <<"normal_stock", SecEmpty>>, <<"mirage_stock", SecTwo>> >>),
      JDoc(<< <<"mirage_stock", SecTwo>>, <<"normal_stock", SecEmpty>> >>),
      JDoc(<< <<"normal_stock", SecBad>> >>) }

\* what get_bloxfruit_data can return
FetchResults == Snapshots \cup {None}

\* more documents, for the functions taken alone
Documents ==
    FetchResults \cup
    { JDoc(<< <<"normal_stock", SecEmpty>>, <<"mirage_stock", SecEmpty>> >>),
      JDoc(<< <<"normal_stock", SecNoItems>> >>),
      JDoc(<< <<"other_stock", SecOne>> >>),
      JDoc(<< <<"mirage_stock", SecBad>>, <<"normal_stock", SecOne>> >>) }

\* Python truthiness of a fetch result: None and {} are falsy
Truthy(data) == data /= None /\ data /= EmptyDoc

\* `key in data` and data[key] on the fetched document
Keys(data) == {data.pairs[i][1] : i \in 1..Len(data.pairs)}
Lookup(data, k) == data.pairs[CHOOSE i \in 1..Len(data.pairs) : data.pairs[i][1] = k][2]

(***************************************************************************)
(* get_data_hash: md5 of json.dumps(data, sort_keys=True).                 *)
(***************************************************************************)
\* the keys in ascending string order
SortedKeys == <<"mirage_stock", "normal_stock", "other_stock">>

\* json.dumps(data) without sort_keys: the pairs in the order received
PlainDump(data) == data.pairs

\* json.dumps(data, sort_keys=True): the pairs in ascending key order
CanonicalDump(data) ==
    LET present == SelectSeq(SortedKeys, LAMBDA k : k \in Keys(data))
    IN  [i \in 1..Len(present) |-> <<present[i], Lookup(data, present[i])>>]

\* hashlib.md5(...).hexdigest(), taken as collision-free on the documents above
Md5(text) == [md5 |-> text]

get_data_hash(data) ==
    IF ~Truthy(data) THEN None ELSE Md5(CanonicalDump(data))

(***************************************************************************)
(* has_data_changed: the verdict and the new previous_data_hash.           *)
(***************************************************************************)
\* has_data_changed with the first run not counted as a change
has_data_changed_quiet_first(previous, data) ==
    LET current_hash == get_data_hash(data)
    IN  IF current_hash /= previous /\ previous /= None
        THEN [changed |-> TRUE, hash |-> current_hash]
        ELSE [changed |-> FALSE, hash |-> current_hash]

has_data_changed(previous, data) ==
    LET current_hash == get_data_hash(data)
    IN  IF previous = None
        THEN [changed |-> TRUE, hash |-> current_hash]
        ELSE IF current_hash /= previous
             THEN [changed |-> TRUE, hash |-> current_hash]
             ELSE [changed |-> FALSE, hash |-> previous]

(***************************************************************************)
(* send_discord_webhook.                                                   *)
(***************************************************************************)
\* item.get(...) of lines 74-76 and the field of lines 78-82: the label is
\* the icon and the name, the value the two prices
Field(icon, item) ==
    [name |-> <<icon, Get(item, "name", "Unknown")>>,
     value |-> <<Get(item, "usd_price", "N/A"), Get(item, "robux_price", "N/A")>>,
     inline |-> TRUE]

\* the embed of one stock section (lines 61-84 and 90-113)
SectionEmbed(title, icon, items) ==
    [title |-> title,
     count |-> Len(items),
     fields |-> [i \in 1..Len(items) |-> Field(icon, items[i])]]

FallbackEmbed == [title |-> "BloxFruit Stock Update", count |-> 0, fields |-> <<>>]

\* `"items" in data[key]` raises TypeError when data[key] is a number
SectionRaises(data, key) ==
    key \in Keys(data) /\ Lookup(data, key).t /= "dict"

\* the condition of lines 58 and 87
SectionListed(data, key) ==
    key \in Keys(data) /\ HasKey(Lookup(data, key).v, "items")

\* lines 55-126, for a document on which no section raises
BuildEmbeds(data) ==
    LET normal == IF SectionListed(data, "normal_stock")
                  THEN << SectionEmbed("Normal Stock Update", "grapes",
                                       Lookup(data, "normal_stock").v.items) >>
                  ELSE <<>>
        mirage == IF SectionListed(data, "mirage_stock")
                  THEN << SectionEmbed("Mirage Stock Update", "star",
                                       Lookup(data, "mirage_stock").v.items) >>
                  ELSE <<>>
        embeds == normal \o mirage
    IN  IF embeds = <<>> THEN <<FallbackEmbed>> ELSE embeds

\* the exception of lines 58 and 87, raised before any delivery
BuildRaises(data) ==
    SectionRaises(data, "normal_stock") \/ SectionRaises(data, "mirage_stock")

\* one pass of the loop of lines 138-149: requests.post to webhook_url, which
\* raises RequestException for the destinations in `failing`
PostOnce(webhook_url, failing) == [url |-> webhook_url, ok |-> webhook_url \notin failing]

\* the loop of lines 138-149 with the try around the loop: the first failed
\* post ends it
RECURSIVE DeliverUntilFailure(_, _)
DeliverUntilFailure(urls, failing) ==
    IF urls = EmptyBag
    THEN <<>>
    ELSE LET webhook_url == CHOOSE w \in BagToSet(urls) : TRUE
         IN  IF webhook_url \in failing
             THEN <<PostOnce(webhook_url, failing)>>
             ELSE <<PostOnce(webhook_url, failing)>>
                  \o DeliverUntilFailure(urls (-) SetToBag({webhook_url}), failing)

\* the loop of lines 138-149 left after its first post
DeliverFirstOnly(urls, failing) ==
    IF urls = EmptyBag
    THEN <<>>
    ELSE LET webhook_url == CHOOSE w \in BagToSet(urls) : TRUE
         IN  <<PostOnce(webhook_url, failing)>>

\* the loop of lines 138-149 over the registry, in some iteration order
RECURSIVE DeliverAll(_, _)
DeliverAll(urls, failing) ==
    IF urls = EmptyBag
    THEN <<>>
    ELSE LET webhook_url == CHOOSE w \in BagToSet(urls) : TRUE
         IN  <<PostOnce(webhook_url, failing)>>
             \o DeliverAll(urls (-) SetToBag({webhook_url}), failing)

\* success_count of lines 135-146
SuccessCount(attempts) == Cardinality({i \in 1..Len(attempts) : attempts[i].ok})

\* line 152 with >= for >
OverallNonNegative(success_count) == success_count >= 0

\* line 152
Overall(success_count) == success_count > 0

\* the call: whether it raised, what it returned, what it built and posted
send_discord_webhook(data, urls, failing) ==
    IF ~Truthy(data) \/ urls = EmptyBag
    THEN [raised |-> FALSE, ret |-> FALSE, embeds |-> <<>>, attempts |-> <<>>]
    ELSE IF BuildRaises(data)
         THEN [raised |-> TRUE, ret |-> FALSE, embeds |-> <<>>, attempts |-> <<>>]
         ELSE LET attempts == DeliverAll(urls, failing)
              IN  [raised |-> FALSE,
                   ret |-> Overall(SuccessCount(attempts)),
                   embeds |-> BuildEmbeds(data),
                   attempts |-> attempts]

(***************************************************************************)
(* The webhook registry: a Python set, as a multiset on which set.add      *)
(* tests membership, so that "each URL at most once" is a property of the  *)
(* operations and not of the representation.                               *)
(***************************************************************************)
\* the registry as a list: webhook_urls.append(webhook)
list_append(urls, webhook) == urls (+) SetToBag({webhook})

\* webhook_urls.add(webhook)
set_add(urls, webhook) ==
    IF BagIn(webhook, urls) THEN urls ELSE urls (+) SetToBag({webhook})

\* webhook_urls.clear() for webhook_urls.remove(webhook)
set_clear(urls, webhook) == EmptyBag

\* webhook_urls.remove(webhook), called for a member
set_remove(urls, webhook) == urls (-) SetToBag({webhook})

\* len(webhook_urls)
len(urls) == BagCardinality(urls)

(***************************************************************************)
(* State.                                                                  *)
(***************************************************************************)
VARIABLES
    previous_data_hash,  \* line 14: None or the fingerprint last stored
    monitoring_active,   \* line 15
    webhook_urls,        \* line 16
    tasks,               \* the monitor_task instances: where each one stands
    last                 \* the last step: its input, its response, what it did

vars == <<previous_data_hash, monitoring_active, webhook_urls, tasks, last>>

TaskIds == 1..MaxTasks

\* "none": not created; "scheduled": handed to BackgroundTasks, not started;
\* "sleeping": inside the while loop, at asyncio.sleep(30); "done": returned
LiveTasks == {t \in TaskIds : tasks[t].pc \in {"scheduled", "sleeping"}}
FreeTasks == {t \in TaskIds : tasks[t].pc = "none"}

Init ==
    /\ previous_data_hash = None
    /\ monitoring_active = FALSE
    /\ webhook_urls = EmptyBag
    /\ tasks = [t \in TaskIds |-> [pc |-> "none", fetched |-> FALSE]]
    /\ last = [kind |-> "init", n |-> 0]

(***************************************************************************)
(* Request handlers.                                                       *)
(***************************************************************************)
\* GET /
root ==
    /\ last' = [kind |-> "root",
                status |-> IF monitoring_active THEN "active" ELSE "inactive"]
    /\ UNCHANGED <<previous_data_hash, monitoring_active, webhook_urls, tasks>>

\* background_tasks.add_task(monitor_task): the next instance is scheduled
add_task(ts) ==
    LET t == CHOOSE x \in TaskIds :
                 /\ ts[x].pc = "none"
                 /\ \A y \in TaskIds : ts[y].pc = "none" => x <= y
    IN  [ts EXCEPT ![t].pc = "scheduled"]

\* GET /api/stock/blox-fruit?webhook=
add_webhook_and_start_monitoring(webhook) ==
    IF webhook = EmptyString
    THEN /\ last' = [kind |-> "register", webhook |-> webhook, status_code |-> 400,
                     detail |-> "Webhook URL is required"]
         /\ UNCHANGED <<previous_data_hash, monitoring_active, webhook_urls, tasks>>
    ELSE IF ~StartsWith(webhook, DiscordPrefix)
    THEN /\ last' = [kind |-> "register", webhook |-> webhook, status_code |-> 400,
                     detail |-> "Invalid Discord webhook URL"]
         /\ UNCHANGED <<previous_data_hash, monitoring_active, webhook_urls, tasks>>
    ELSE /\ monitoring_active \/ FreeTasks /= {}
         /\ webhook_urls' = set_add(webhook_urls, webhook)
         /\ tasks' = IF ~monitoring_active THEN add_task(tasks) ELSE tasks
         /\ last' = [kind |-> "register", webhook |-> webhook, status_code |-> 200,
                     message |-> IF ~monitoring_active
                                 THEN "BloxFruit stock monitoring started!"
                                 ELSE "Webhook added to existing monitoring",
                     webhook_added |-> webhook,
                     total_webhooks |-> len(webhook_urls'),
                     was_member |-> BagIn(webhook, webhook_urls)]
         /\ UNCHANGED <<previous_data_hash, monitoring_active>>

\* GET /status
get_status ==
    /\ last' = [kind |-> "status",
                monitoring_active |-> monitoring_active,
                total_webhooks |-> len(webhook_urls),
                message |-> IF monitoring_active THEN "Monitoring is active"
                                                 ELSE "Monitoring is not active"]
    /\ UNCHANGED <<previous_data_hash, monitoring_active, webhook_urls, tasks>>

\* GET /api/stock/current, the upstream API answering `data`
get_current_stock(data) ==
    /\ last' = IF Truthy(data)
               THEN [kind |-> "current", status_code |-> 200, body |-> data]
               ELSE [kind |-> "current", status_code |-> 503,
                     detail |-> "Unable to fetch stock data"]
    /\ UNCHANGED <<previous_data_hash, monitoring_active, webhook_urls, tasks>>

\* GET /api/webhooks
get_webhooks ==
    /\ last' = [kind |-> "webhooks",
                webhooks |-> BagToSet(webhook_urls),
                total_count |-> len(webhook_urls),
                monitoring_active |-> monitoring_active]
    /\ UNCHANGED <<previous_data_hash, monitoring_active, webhook_urls, tasks>>

\* remove_webhook stopping the monitoring when the last webhook goes
remove_webhook_stopping(webhook) ==
    IF webhook = EmptyString
    THEN /\ last' = [kind |-> "remove", webhook |-> webhook, status_code |-> 400,
                     detail |-> "Webhook URL is required"]
         /\ UNCHANGED <<previous_data_hash, monitoring_active, webhook_urls, tasks>>
    ELSE IF BagIn(webhook, webhook_urls)
    THEN /\ webhook_urls' = set_remove(webhook_urls, webhook)
         /\ monitoring_active' = (monitoring_active /\ webhook_urls' /= EmptyBag)
         /\ last' = [kind |-> "remove", webhook |-> webhook, status_code |-> 200,
                     message |-> "Webhook removed successfully",
                     webhook_removed |-> webhook,
                     remaining_webhooks |-> len(webhook_urls')]
         /\ UNCHANGED <<previous_data_hash, tasks>>
    ELSE /\ last' = [kind |-> "remove", webhook |-> webhook, status_code |-> 404,
                     detail |-> "Webhook not found"]
         /\ UNCHANGED <<previous_data_hash, monitoring_active, webhook_urls, tasks>>

\* GET /api/webhooks/remove?webhook=
remove_webhook(webhook) ==
    IF webhook = EmptyString
    THEN /\ last' = [kind |-> "remove", webhook |-> webhook, status_code |-> 400,
                     detail |-> "Webhook URL is required"]
         /\ UNCHANGED <<previous_data_hash, monitoring_active, webhook_urls, tasks>>
    ELSE IF BagIn(webhook, webhook_urls)
    THEN /\ webhook_urls' = set_remove(webhook_urls, webhook)
         /\ last' = [kind |-> "remove", webhook |-> webhook, status_code |-> 200,
                     message |-> "Webhook removed successfully",
                     webhook_removed |-> webhook,
                     remaining_webhooks |-> len(webhook_urls')]
         /\ UNCHANGED <<previous_data_hash, monitoring_active, tasks>>
    ELSE /\ last' = [kind |-> "remove", webhook |-> webhook, status_code |-> 404,
                     detail |-> "Webhook not found"]
         /\ UNCHANGED <<previous_data_hash, monitoring_active, webhook_urls, tasks>>

(***************************************************************************)
(* monitor_task.                                                           *)
(***************************************************************************)
\* the body of the while loop without the `if data:` of line 173
TickOutcomeUnguarded(previous, urls, data, failing) ==
    LET detect == has_data_changed(previous, data)
        sent == IF detect.changed
                THEN send_discord_webhook(data, urls, failing)
                ELSE [raised |-> FALSE, ret |-> FALSE, embeds |-> <<>>, attempts |-> <<>>]
    IN  [data |-> data,
         fetched |-> Truthy(data),
         detected |-> TRUE,
         changed |-> detect.changed,
         hash |-> detect.hash,
         dispatched |-> detect.changed,
         raised |-> sent.raised,
         success |-> sent.ret,
         embeds |-> sent.embeds,
         attempts |-> sent.attempts]

\* the body of the while loop storing the fingerprint only after a dispatch
\* that succeeded
TickOutcomeCommitOnSuccess(previous, urls, data, failing) ==
    LET detect == IF Truthy(data)
                  THEN has_data_changed(previous, data)
                  ELSE [changed |-> FALSE, hash |-> previous]
        called == Truthy(data) /\ detect.changed
        sent == IF called
                THEN send_discord_webhook(data, urls, failing)
                ELSE [raised |-> FALSE, ret |-> FALSE, embeds |-> <<>>, attempts |-> <<>>]
    IN  [data |-> data,
         fetched |-> Truthy(data),
         detected |-> Truthy(data),
         changed |-> detect.changed,
         hash |-> IF sent.ret THEN detect.hash ELSE previous,
         dispatched |-> called,
         raised |-> sent.raised,
         success |-> sent.ret,
         embeds |-> sent.embeds,
         attempts |-> sent.attempts]

\* The body of the while loop, lines 165-188, with monitoring_active true:
\* the fetch answers `data`, the posts to the URLs in `failing` fail.
TickOutcome(previous, urls, data, failing) ==
    LET detect == IF Truthy(data)
                  THEN has_data_changed(previous, data)
                  ELSE [changed |-> FALSE, hash |-> previous]
        called == Truthy(data) /\ detect.changed
        sent == IF called
                THEN send_discord_webhook(data, urls, failing)
                ELSE [raised |-> FALSE, ret |-> FALSE, embeds |-> <<>>, attempts |-> <<>>]
    IN  [data |-> data,
         fetched |-> Truthy(data),
         detected |-> Truthy(data),
         changed |-> detect.changed,
         hash |-> detect.hash,
         dispatched |-> called,
         raised |-> sent.raised,
         success |-> sent.ret,
         embeds |-> sent.embeds,
         attempts |-> sent.attempts]

\* One pass of the loop by instance t, up to asyncio.sleep(30) or, when the
\* body raises, through the handler of lines 192-194.
Tick(t, data, failing) ==
    LET o == TickOutcome(previous_data_hash, webhook_urls, data, failing)
    IN  /\ previous_data_hash' = o.hash
        /\ monitoring_active' = ~o.raised
        /\ tasks' = [tasks EXCEPT ![t] =
                        [pc |-> IF o.raised THEN "done" ELSE "sleeping",
                         fetched |-> tasks[t].fetched \/ o.fetched]]
        /\ last' = o @@ [kind |-> "tick", task |-> t,
                         first_fetched |-> o.fetched /\ ~tasks[t].fetched,
                         before |-> previous_data_hash]
        /\ UNCHANGED webhook_urls

\* The instance starts: line 157 sets the flag, then the first pass runs.
StartTask(t, data, failing) ==
    /\ tasks[t].pc = "scheduled"
    /\ Tick(t, data, failing)

\* The sleep is over and line 164 finds the flag set: the next pass runs.
WakeTask(t, data, failing) ==
    /\ tasks[t].pc = "sleeping"
    /\ monitoring_active
    /\ Tick(t, data, failing)

\* The sleep is over and line 164 finds the flag cleared: the instance returns.
ExitTask(t) ==
    /\ tasks[t].pc = "sleeping"
    /\ ~monitoring_active
    /\ tasks' = [tasks EXCEPT ![t].pc = "done"]
    /\ last' = [kind |-> "exit", task |-> t]
    /\ UNCHANGED <<previous_data_hash, monitoring_active, webhook_urls>>

\* The deliveries of a pass that can fail: those it makes.  A pass that posts
\* nothing has one outcome.
FailureChoices(data) ==
    IF /\ Truthy(data)
       /\ has_data_changed(previous_data_hash, data).changed
       /\ ~BuildRaises(data)
    THEN SUBSET BagToSet(webhook_urls)
    ELSE {{}}

Next ==
    \/ root
    \/ \E webhook \in WebhookInputs : add_webhook_and_start_monitoring(webhook)
    \/ get_status
    \/ \E data \in FetchResults : get_current_stock(data)
    \/ get_webhooks
    \/ \E webhook \in WebhookInputs : remove_webhook(webhook)
    \/ \E t \in TaskIds, data \in FetchResults :
           \E failing \in FailureChoices(data) : StartTask(t, data, failing)
    \/ \E t \in TaskIds, data \in FetchResults :
           \E failing \in FailureChoices(data) : WakeTask(t, data, failing)
    \/ \E t \in TaskIds : ExitTask(t)

Spec == Init /\ [][Next]_vars

(***************************************************************************)
(* The change detector alone: has_data_changed called on any document,     *)
(* from any stored fingerprint.                                            *)
(***************************************************************************)
Fingerprints == {get_data_hash(d) : d \in Documents}

DetectorInit ==
    /\ previous_data_hash \in Fingerprints
    /\ monitoring_active = FALSE
    /\ webhook_urls = EmptyBag
    /\ tasks = [t \in TaskIds |-> [pc |-> "none", fetched |-> FALSE]]
    /\ last = [kind |-> "init", n |-> 0]

DetectorCall(data) ==
    LET r == has_data_changed(previous_data_hash, data)
    IN  /\ last.n < MaxCalls
        /\ previous_data_hash' = r.hash
        /\ last' = [kind |-> "detect", n |-> last.n + 1, data |-> data,
                    before |-> previous_data_hash, changed |-> r.changed]
        /\ UNCHANGED <<monitoring_active, webhook_urls, tasks>>

DetectorNext == \E data \in Documents : DetectorCall(data)

DetectorSpec == DetectorInit /\ [][DetectorNext]_vars

(***************************************************************************)
(* The dispatcher alone: send_discord_webhook called on any document, for  *)
(* any registry of up to three webhooks and any delivery failures.         *)
(***************************************************************************)
DispatchUrls == {D1, D2, D3}

DispatchInit ==
    /\ previous_data_hash = None
    /\ monitoring_active = TRUE
    /\ webhook_urls \in {SetToBag(S) : S \in SUBSET DispatchUrls}
    /\ tasks = [t \in TaskIds |-> [pc |-> "none", fetched |-> FALSE]]
    /\ last = [kind |-> "init", n |-> 0]

DispatchCall(data, failing) ==
    /\ last' = send_discord_webhook(data, webhook_urls, failing)
                   @@ [kind |-> "dispatch", data |-> data, failing |-> failing]
    /\ UNCHANGED <<previous_data_hash, monitoring_active, webhook_urls, tasks>>

DispatchNext ==
    \E data \in Documents, failing \in SUBSET DispatchUrls : DispatchCall(data, failing)

DispatchSpec == DispatchInit /\ [][DispatchNext]_vars

(***************************************************************************)
(* Properties.                                                             *)
(***************************************************************************)

\* C1: in every reachable state at most one monitor_task instance exists,
\* scheduled or inside its loop.
AtMostOneLoop == Cardinality(LiveTasks) <= 1

\* the webhooks a pass has posted to
Attempted(attempts) == {attempts[i].url : i \in 1..Len(attempts)}

BootstrapAlwaysChanged ==
    (last.kind = "detect" /\ last.before = None)
    => /\ last.changed
       /\ previous_data_hash = get_data_hash(last.data)
BootstrapAlwaysChangedWitness ==
    /\ last.kind = "detect"
    /\ last.before = None
    /\ last.changed
    /\ previous_data_hash /= None

\* C4: a call reports a change iff the stored fingerprint is absent or
\* differs from the document's; after a change the stored fingerprint is the
\* document's; a second call on the same document reports no change and
\* leaves the stored fingerprint as it is.
SecondCallUnchanged ==
    [][(last'.kind = "detect" /\ last'.n /= last.n /\ last'.data /= None)
       => /\ last'.changed
              <=> (previous_data_hash = None
                   \/ previous_data_hash /= get_data_hash(last'.data))
          /\ last'.changed => previous_data_hash' = get_data_hash(last'.data)
          /\ (last.kind = "detect" /\ last'.data = last.data)
              => (~last'.changed /\ previous_data_hash' = previous_data_hash)]_vars

\* C5: a pass whose fetch fails leaves the stored fingerprint as it was,
\* calls neither the detector nor the dispatcher, and leaves the instance
\* in its loop with the flag set.
FetchFailureSkipsPass ==
    (last.kind = "tick" /\ ~last.fetched)
    => /\ previous_data_hash = last.before
       /\ ~last.detected
       /\ ~last.changed
       /\ ~last.dispatched
       /\ last.attempts = <<>>
       /\ monitoring_active
       /\ tasks[last.task].pc = "sleeping"
FetchFailureSkipsPassWitness ==
    /\ last.kind = "tick"
    /\ ~last.fetched
    /\ last.before /= None
    /\ webhook_urls /= EmptyBag
    /\ monitoring_active
    /\ tasks[last.task].pc = "sleeping"

\* C6: a send_discord_webhook call that returns has posted exactly once to
\* every webhook of the given set, whichever of the posts failed.
EachDestinationOnce ==
    (/\ last.kind = "dispatch"
     /\ Truthy(last.data)
     /\ ~last.raised)
    => /\ \A w \in BagToSet(webhook_urls) :
              Cardinality({i \in 1..Len(last.attempts) : last.attempts[i].url = w}) = 1
       /\ Len(last.attempts) = len(webhook_urls)
       /\ \A i \in 1..Len(last.attempts) :
              last.attempts[i].ok <=> last.attempts[i].url \notin last.failing
EachDestinationOnceWitness ==
    /\ last.kind = "dispatch"
    /\ ~last.raised
    /\ len(webhook_urls) = 3
    /\ Len(last.attempts) = 3
    /\ SuccessCount(last.attempts) = 2
    /\ Cardinality(last.failing \cap BagToSet(webhook_urls)) = 1

\* C7: send_discord_webhook returns success iff at least one post succeeded;
\* with no webhook it returns failure and posts nothing.
SuccessIffOneDelivered ==
    (last.kind = "dispatch" /\ ~last.raised)
    => /\ last.ret <=> (\E i \in 1..Len(last.attempts) : last.attempts[i].ok)
       /\ webhook_urls = EmptyBag => (~last.ret /\ last.attempts = <<>>)
       /\ BagToSet(webhook_urls) \subseteq last.failing => ~last.ret
SuccessIffOneDeliveredWitness ==
    /\ last.kind = "dispatch"
    /\ ~last.raised
    /\ len(webhook_urls) = 2
    /\ Len(last.attempts) = 2
    /\ BagToSet(webhook_urls) \subseteq last.failing
    /\ ~last.ret

\* C8: registering a webhook that is already registered leaves the registry
\* and its count as they were, and the registry never holds a webhook twice.
RegistrationIdempotent ==
    [][/\ \A w \in WebhookInputs :
              (add_webhook_and_start_monitoring(w) /\ BagIn(w, webhook_urls))
              => /\ webhook_urls' = webhook_urls
                 /\ len(webhook_urls') = len(webhook_urls)
       /\ \A w \in WebhookInputs : CopiesIn(w, webhook_urls') <= 1]_vars
RegistrationIdempotentWitness ==
    /\ last.kind = "register"
    /\ last.status_code = 200
    /\ last.was_member
    /\ last.total_webhooks = 2
    /\ CopiesIn(last.webhook, webhook_urls) = 1

\* what a 200 response to a registration tells the client about the webhook:
\* the body of lines 235-240 always carries webhook_added
ReportedOutcome(response) ==
    IF HasKey(response, "webhook_added") THEN "added" ELSE "already-present"

\* C9: the response to a registration says "already present" when the
\* webhook was registered before the request and "added" when it was not.
RegistrationReportsOutcome ==
    (last.kind = "register" /\ last.status_code = 200)
    => ReportedOutcome(last) = IF last.was_member THEN "already-present" ELSE "added"

\* C10: removing a webhook that is not registered answers 404 and leaves the
\* registry as it was; removing a registered one answers 200 and takes out
\* that webhook and no other.
RemoveExactlyOne ==
    [][\A w \in WebhookInputs \ {EmptyString} :
          remove_webhook(w)
          => IF BagIn(w, webhook_urls)
             THEN /\ last'.status_code = 200
                  /\ last'.webhook_removed = w
                  /\ last'.remaining_webhooks = len(webhook_urls) - 1
                  /\ \A x \in WebhookInputs :
                         CopiesIn(x, webhook_urls') =
                             IF x = w THEN 0 ELSE CopiesIn(x, webhook_urls)
             ELSE /\ last'.status_code = 404
                  /\ webhook_urls' = webhook_urls
                  /\ len(webhook_urls') = len(webhook_urls)]_vars
RemoveExactlyOneWitness ==
    /\ last.kind = "remove"
    /\ last.status_code = 200
    /\ last.remaining_webhooks = 1
    /\ len(webhook_urls) = 1
    /\ ~BagIn(last.webhook, webhook_urls)

\* the format a registered webhook must have: the Discord prefix first
HasDiscordPrefix(webhook) ==
    /\ Len(webhook) >= 1
    /\ webhook[1] = "https://discord.com/api/webhooks/"

\* C11: a registration whose webhook is empty or lacks the Discord prefix is
\* answered 400 and changes neither the registry, the stored fingerprint, the
\* flag nor the instances; every registered webhook has the prefix.
MalformedRejected ==
    [][/\ \A w \in WebhookInputs :
              (add_webhook_and_start_monitoring(w) /\ ~HasDiscordPrefix(w))
              => /\ last'.status_code = 400
                 /\ UNCHANGED <<webhook_urls, previous_data_hash,
                                monitoring_active, tasks>>
       /\ \A w \in BagToSet(webhook_urls') : HasDiscordPrefix(w)]_vars
MalformedRejectedWitness ==
    /\ last.kind = "register"
    /\ last.webhook = BadUrl
    /\ last.status_code = 400
    /\ webhook_urls /= EmptyBag
    /\ monitoring_active

\* the sections send_discord_webhook knows, with their titles and icons
RecognizedSections ==
    { [key |-> "normal_stock", title |-> "Normal Stock Update", icon |-> "grapes"],
      [key |-> "mirage_stock", title |-> "Mirage Stock Update", icon |-> "star"] }

\* the items a section of the document yields: none when it is missing
ItemsOf(data, key) ==
    IF key \in Keys(data) /\ HasKey(Lookup(data, key).v, "items")
    THEN Lookup(data, key).v.items
    ELSE <<>>

\* the groups of a notification with a given title
GroupsTitled(embeds, title) == {i \in 1..Len(embeds) : embeds[i].title = title}

\* C12: the notification has one group for each recognized section with a
\* non-empty item list, with one field per item in item order, and no group
\* for a recognized section whose item list is empty.
GroupPerNonEmptySection ==
    (/\ last.kind = "dispatch"
     /\ ~last.raised
     /\ webhook_urls /= EmptyBag
     /\ Truthy(last.data))
    => \A sec \in RecognizedSections :
           LET items == ItemsOf(last.data, sec.key)
               groups == GroupsTitled(last.embeds, sec.title)
           IN  IF items /= <<>>
               THEN /\ Cardinality(groups) = 1
                    /\ \A g \in groups :
                           /\ Len(last.embeds[g].fields) = Len(items)
                           /\ \A j \in 1..Len(items) :
                                  last.embeds[g].fields[j] = Field(sec.icon, items[j])
               ELSE groups = {}

\* C13: the notification is exactly one fallback group iff no recognized
\* section yields an item, and has no fallback group otherwise.
FallbackIffNoItems ==
    (/\ last.kind = "dispatch"
     /\ ~last.raised
     /\ webhook_urls /= EmptyBag
     /\ Truthy(last.data))
    => LET none_yields == \A sec \in RecognizedSections :
                              ItemsOf(last.data, sec.key) = <<>>
       IN  /\ none_yields <=> last.embeds = <<FallbackEmbed>>
           /\ ~none_yields => GroupsTitled(last.embeds, FallbackEmbed.title) = {}

\* the last step was a pass of the loop that raised
Faulted == last.kind = "tick" /\ last.raised

\* C14: a pass that raises ends its instance and clears the flag, which the
\* status query then reports; no pass follows it without a new registration,
\* and a registration with the flag cleared schedules an instance.
FaultStopsLoop ==
    [][/\ Faulted' => (~monitoring_active' /\ tasks'[last'.task].pc = "done")
       /\ (Faulted /\ get_status) => ~last'.monitoring_active
       /\ Faulted => last'.kind /= "tick"
       /\ \A w \in WebhookInputs :
              (/\ add_webhook_and_start_monitoring(w)
               /\ last'.status_code = 200
               /\ ~monitoring_active)
              => \E t \in TaskIds :
                     tasks[t].pc = "none" /\ tasks'[t].pc = "scheduled"]_vars

\* two documents with the same keys and values, in any order
SamePairs(A, B) ==
    /\ Len(A.pairs) = Len(B.pairs)
    /\ {A.pairs[i] : i \in 1..Len(A.pairs)} = {B.pairs[i] : i \in 1..Len(B.pairs)}

\* C15: two documents that differ only in the order of their keys have the
\* same fingerprint, and has_data_changed called on a document that has keys
\* while the fingerprint of a reordering of it is stored reports no change and
\* keeps the fingerprint.
FingerprintStable ==
    /\ \A A, B \in Documents \ {None} :
           SamePairs(A, B) => get_data_hash(A) = get_data_hash(B)
    /\ (/\ last.kind = "detect"
        /\ Truthy(last.data)
        /\ \E B \in Documents \ {None} :
               SamePairs(B, last.data) /\ last.before = get_data_hash(B))
       => (~last.changed /\ previous_data_hash = last.before)

FingerprintStableWitness ==
    /\ last.kind = "detect"
    /\ ~last.changed
    /\ last.data /= None
    /\ \E B \in Documents \ {None} :
           /\ B /= last.data
           /\ SamePairs(B, last.data)
           /\ B.pairs[1][1] = "normal_stock"
           /\ last.before = get_data_hash(B)

\* C16: has_data_changed called on an absent or empty document reports no
\* change and leaves previous_data_hash as it was, absent or present.
EmptyNeverUpdates ==
    (last.kind = "detect" /\ ~Truthy(last.data))
    => (~last.changed /\ previous_data_hash = last.before)

\* C17: a pass detects only what it fetched and dispatches only what it
\* detected as changed, a pass that does not raise ends in its wait, and no
\* pass runs while another instance's wait is still pending.
TicksNeverOverlap ==
    last.kind = "tick"
    => /\ last.detected => last.fetched
       /\ last.dispatched => (last.detected /\ last.changed)
       /\ ~last.raised => tasks[last.task].pc = "sleeping"
       /\ \A u \in TaskIds \ {last.task} : tasks[u].pc /= "sleeping"

\* C18: the webhooks a pass posts to are exactly the registry as it stands at
\* that pass, each one once: every webhook registered before the pass and not
\* removed since is attempted, no other is, and the registry is the same
\* before and after the dispatch.
DispatchReadsRegistryOnce ==
    (last.kind = "tick" /\ last.dispatched /\ ~last.raised)
    => /\ Attempted(last.attempts) = BagToSet(webhook_urls)
       /\ Len(last.attempts) = len(webhook_urls)

DispatchReadsRegistryOnceWitness ==
    /\ last.kind = "tick"
    /\ last.dispatched
    /\ ~last.raised
    /\ last.before /= None
    /\ BagToSet(webhook_urls) = {D1, D2}
    /\ Attempted(last.attempts) = {D1, D2}

\* C19: a pass that detects a change stores the new fingerprint whatever the
\* dispatch does (it succeeds, every delivery fails, the registry is empty,
\* it raises), and a pass that fetches a document whose fingerprint is the
\* stored one dispatches nothing: a change is dispatched in one pass at most.
FingerprintAdvancedAtDetection ==
    /\ (last.kind = "tick" /\ last.changed)
       => previous_data_hash = get_data_hash(last.data)
    /\ (last.kind = "tick" /\ last.fetched /\ last.before = get_data_hash(last.data))
       => (~last.changed /\ ~last.dispatched /\ last.attempts = <<>>)

FingerprintAdvancedAtDetectionWitness ==
    /\ last.kind = "tick"
    /\ last.changed
    /\ last.dispatched
    /\ last.attempts /= <<>>
    /\ ~last.success
    /\ last.before /= None
    /\ previous_data_hash = get_data_hash(last.data)

\* C20: the flag goes from set to cleared only in a pass of the loop that
\* raises; remove_webhook, of the last webhook too, leaves the flag, the
\* stored fingerprint and the loop instances as they are; and a pass that
\* runs with the registry empty leaves the flag set and its instance waiting
\* for the next pass.
OnlyFaultStops ==
    [][/\ (monitoring_active /\ ~monitoring_active')
          => (last'.kind = "tick" /\ last'.raised)
       /\ \A w \in WebhookInputs :
              remove_webhook(w)
              => UNCHANGED <<monitoring_active, previous_data_hash, tasks>>
       /\ (last'.kind = "tick" /\ webhook_urls' = EmptyBag)
          => (monitoring_active' /\ tasks'[last'.task].pc = "sleeping")]_vars

OnlyFaultStopsWitness ==
    /\ last.kind = "tick"
    /\ webhook_urls = EmptyBag
    /\ last.before /= None
    /\ last.dispatched
    /\ monitoring_active
    /\ tasks[last.task].pc = "sleeping"

====
